---- MODULE Spec2Model ----
(***************************************************************************)
(* Model of scripts/generate-npc-walk-from-originals.py: the sprite        *)
(* background removal (border-seeded flood fill), the alpha crop, the      *)
(* aspect scaling, the walk-frame compositor and the batch driver.         *)
(*                                                                         *)
(* Each stage is checked under a specification of its own:                 *)
(*   SpecFill             remove_border_background                         *)
(*   SpecCrop             crop_alpha                                       *)
(*   SpecScale            the scaling step of prep_sprite                  *)
(*   SpecCompose          compose_walk_frames                              *)
(*   SpecMain             main                                             *)
(***************************************************************************)
EXTENDS Integers, Sequences, FiniteSets, TLC

VARIABLES
    pc,      \* position of the routine that is running
    rgb,     \* remove_border_background: the RGB image [w, h, px]
    bg,      \* remove_border_background: the mask, bg[<<x, y>>]
    q,       \* remove_border_background: the deque of <<x, y>>
    rgba,    \* remove_border_background: the alpha of the result, per pixel
    enq,     \* history: how many times q.append ran for each pixel
    iters,   \* history: how many iterations of `while q` have run
    img,     \* crop_alpha: the RGBA image handed in, [w, h, px]
    cropped, \* crop_alpha's result; prep_sprite's `cropped`
    again,   \* crop_alpha applied to its own result
    resized, \* prep_sprite: the size handed to resize, <<tw, TARGET_H>>
    err,     \* the exception that ended the routine, "" when none
    present, \* main: the names of SOURCES whose source file exists
    idx,     \* main: the position in SOURCES of the entry at hand, from 1
    name,    \* compose_walk_frames: the character's name
    sprite,  \* compose_walk_frames: the sprite's size [w, h]
    i,       \* compose_walk_frames: the index of the frame to compose next
    files,   \* the output files written, <<name, i>> :> the frame saved
    log      \* the lines printed

fillVars == <<rgb, bg, q, rgba, enq, iters>>

cropVars == <<img, cropped, again>>

scaleVars == <<resized, err>>

mainVars == <<present, idx, name, sprite, i, files, log>>

vars ==
    <<pc, rgb, bg, q, rgba, enq, iters, img, cropped, again, resized, err,
      present, idx, name, sprite, i, files, log>>

----------------------------------------------------------------------------
(* Bounds of the flood-fill inputs. *)

\* images of at most this many pixels (w * h <= MaxArea)
MaxArea == 9

\* the colours the images are painted with: near-white, the darkest and most
\* tinted colour that still passes, one channel just below the threshold, a
\* tint just above the tolerance, and a saturated body colour
Palette ==
    << <<255, 255, 255>>, <<244, 220, 220>>, <<255, 255, 219>>,
       <<255, 255, 230>>, <<0, 0, 255>> >>

----------------------------------------------------------------------------
(* is_bg_pixel *)

Max3(a, b, c) == IF a >= b /\ a >= c THEN a ELSE IF b >= c THEN b ELSE c

Min3(a, b, c) == IF a <= b /\ a <= c THEN a ELSE IF b <= c THEN b ELSE c

is_bg_pixel(r, g, b) ==
    IF r < 220 \/ g < 220 \/ b < 220
    THEN FALSE
    ELSE (Max3(r, g, b) - Min3(r, g, b)) <= 24

----------------------------------------------------------------------------
(* remove_border_background *)

Pixels(w, h) == (0 .. (w - 1)) \X (0 .. (h - 1))

\* the fill's mutable locals, threaded through the calls of push_if_bg
FillState == [bg |-> bg, q |-> q, enq |-> enq]

\* push_if_bg without its `if bg[y][x]: return`
push_if_bg_unmarked(s, x, y) ==
    IF x < 0 \/ y < 0 \/ x >= rgb.w \/ y >= rgb.h
    THEN s
    ELSE IF ~is_bg_pixel(rgb.px[<<x, y>>][1], rgb.px[<<x, y>>][2], rgb.px[<<x, y>>][3])
    THEN s
    ELSE [bg  |-> [s.bg EXCEPT ![<<x, y>>] = TRUE],
          q   |-> Append(s.q, <<x, y>>),
          enq |-> [s.enq EXCEPT ![<<x, y>>] = @ + 1]]

push_if_bg(s, x, y) ==
    IF x < 0 \/ y < 0 \/ x >= rgb.w \/ y >= rgb.h
    THEN s
    ELSE IF s.bg[<<x, y>>]
    THEN s
    ELSE IF ~is_bg_pixel(rgb.px[<<x, y>>][1], rgb.px[<<x, y>>][2], rgb.px[<<x, y>>][3])
    THEN s
    ELSE [bg  |-> [s.bg EXCEPT ![<<x, y>>] = TRUE],
          q   |-> Append(s.q, <<x, y>>),
          enq |-> [s.enq EXCEPT ![<<x, y>>] = @ + 1]]

\* for x in range(w): push_if_bg(x, 0); push_if_bg(x, h - 1)
RECURSIVE SeedRows(_, _)
SeedRows(s, x) ==
    IF x >= rgb.w
    THEN s
    ELSE SeedRows(push_if_bg(push_if_bg(s, x, 0), x, rgb.h - 1), x + 1)

\* for y in range(h): push_if_bg(0, y); push_if_bg(w - 1, y)
RECURSIVE SeedCols(_, _)
SeedCols(s, y) ==
    IF y >= rgb.h
    THEN s
    ELSE SeedCols(push_if_bg(push_if_bg(s, 0, y), rgb.w - 1, y), y + 1)

\* the seeding with its second loop (the left and right columns) left out
SeedRowsOnly(s) == SeedRows(s, 0)

SeedBorders(s) == SeedCols(SeedRows(s, 0), 0)

\* an expansion that also visits the diagonal neighbours
NeighboursDiag(x, y) ==
    << <<x + 1, y>>, <<x - 1, y>>, <<x, y + 1>>, <<x, y - 1>>,
       <<x + 1, y + 1>>, <<x - 1, y - 1>>, <<x + 1, y - 1>>, <<x - 1, y + 1>> >>

\* the four pushes of one iteration of `while q`, in the code's order
Neighbours(x, y) ==
    << <<x + 1, y>>, <<x - 1, y>>, <<x, y + 1>>, <<x, y - 1>> >>

RECURSIVE PushAll(_, _)
PushAll(s, ps) ==
    IF ps = << >>
    THEN s
    ELSE PushAll(push_if_bg(s, Head(ps)[1], Head(ps)[2]), Tail(ps))

\* out[x, y] = (r, g, b, 0) if bg[y][x] else (r, g, b, 255)
AlphaOf(marked) == IF marked THEN 0 ELSE 255

\* an image with no pixels: the value of every image variable not in use
NoImage == [w |-> 0, h |-> 0, px |-> << >>]

FillIdle ==
    /\ rgb = NoImage
    /\ bg = << >>
    /\ q = << >>
    /\ rgba = << >>
    /\ enq = << >>
    /\ iters = 0

CropIdle == img = NoImage /\ cropped = NoImage /\ again = NoImage

ScaleIdle == resized = << >> /\ err = ""

MainIdle ==
    /\ present = {}
    /\ idx = 0
    /\ name = ""
    /\ sprite = [w |-> 0, h |-> 0]
    /\ i = 0
    /\ files = << >>
    /\ log = << >>

FillInit ==
    /\ pc = "seed"
    /\ CropIdle
    /\ ScaleIdle
    /\ MainIdle
    /\ \E w \in 0 .. MaxArea, h \in 0 .. MaxArea :
         /\ w * h <= MaxArea
         /\ \E a \in 1 .. Len(Palette), b \in 1 .. Len(Palette) :
              /\ a < b
              /\ \E F \in SUBSET Pixels(w, h) :
                   rgb = [w  |-> w,
                          h  |-> h,
                          px |-> [p \in Pixels(w, h) |->
                                    IF p \in F THEN Palette[a] ELSE Palette[b]]]
    /\ bg = [p \in Pixels(rgb.w, rgb.h) |-> FALSE]
    /\ q = << >>
    /\ rgba = << >>
    /\ enq = [p \in Pixels(rgb.w, rgb.h) |-> 0]
    /\ iters = 0

\* lines 52-57: the border seeding
Seed ==
    /\ pc = "seed"
    /\ LET s == SeedBorders(FillState)
       IN  /\ bg' = s.bg
           /\ q' = s.q
           /\ enq' = s.enq
    /\ pc' = "fill"
    /\ UNCHANGED <<rgb, rgba, iters, cropVars, scaleVars, mainVars>>

\* lines 59-64: one iteration of `while q`
Dequeue ==
    /\ pc = "fill"
    /\ q # << >>
    /\ LET xy == Head(q)
           s  == PushAll([FillState EXCEPT !.q = Tail(q)], Neighbours(xy[1], xy[2]))
       IN  /\ bg' = s.bg
           /\ q' = s.q
           /\ enq' = s.enq
    /\ iters' = iters + 1
    /\ UNCHANGED <<pc, rgb, rgba, cropVars, scaleVars, mainVars>>

\* lines 66-76: the loop has ended; write the alpha channel and return
WriteAlpha ==
    /\ pc = "fill"
    /\ q = << >>
    /\ rgba' = [p \in Pixels(rgb.w, rgb.h) |-> AlphaOf(bg[p])]
    /\ pc' = "done"
    /\ UNCHANGED <<rgb, bg, q, enq, iters, cropVars, scaleVars, mainVars>>

FillNext == Seed \/ Dequeue \/ WriteAlpha

SpecFill == FillInit /\ [][FillNext]_vars

----------------------------------------------------------------------------
(* crop_alpha *)

\* images of at most this width and height, with at most MaxOpaque pixels of
\* non-zero alpha (two pixels already span every bounding box)
MaxCropW == 5

MaxCropH == 5

MaxOpaque == 2

\* the default of crop_alpha's parameter, and the value prep_sprite passes
PAD == 2

MinOf(S) == CHOOSE m \in S : \A n \in S : m <= n

MaxOf(S) == CHOOSE m \in S : \A n \in S : m >= n

\* Image.getbbox on the alpha channel: the box of the non-zero pixels, right
\* and bottom exclusive; << >> stands for None
getbbox(im) ==
    LET S == {p \in Pixels(im.w, im.h) : im.px[p].a # 0}
    IN  IF S = {}
        THEN << >>
        ELSE << MinOf({p[1] : p \in S}), MinOf({p[2] : p \in S}),
                MaxOf({p[1] : p \in S}) + 1, MaxOf({p[2] : p \in S}) + 1 >>

\* Image.crop: the pixels of the box, transparent black where the box leaves
\* the image
crop(im, l, t, r, b) ==
    [w  |-> IF r > l THEN r - l ELSE 0,
     h  |-> IF b > t THEN b - t ELSE 0,
     px |-> [p \in Pixels(r - l, b - t) |->
               IF <<p[1] + l, p[2] + t>> \in Pixels(im.w, im.h)
               THEN im.px[<<p[1] + l, p[2] + t>>]
               ELSE [c |-> 0, a |-> 0]]]

\* crop_alpha taking the box's right and bottom for inclusive coordinates
crop_alpha_inclusive(im, pad) ==
    LET bbox == getbbox(im)
    IN  IF bbox = << >>
        THEN im
        ELSE crop(im,
                  IF bbox[1] - pad > 0 THEN bbox[1] - pad ELSE 0,
                  IF bbox[2] - pad > 0 THEN bbox[2] - pad ELSE 0,
                  IF bbox[3] + pad < im.w - 1 THEN bbox[3] + pad ELSE im.w - 1,
                  IF bbox[4] + pad < im.h - 1 THEN bbox[4] + pad ELSE im.h - 1)

crop_alpha(im, pad) ==
    LET bbox == getbbox(im)
    IN  IF bbox = << >>
        THEN im
        ELSE crop(im,
                  IF bbox[1] - pad > 0 THEN bbox[1] - pad ELSE 0,
                  IF bbox[2] - pad > 0 THEN bbox[2] - pad ELSE 0,
                  IF bbox[3] + pad < im.w THEN bbox[3] + pad ELSE im.w,
                  IF bbox[4] + pad < im.h THEN bbox[4] + pad ELSE im.h)

\* every pixel carries its own colour, so that a moved pixel shows
CropInit ==
    /\ pc = "crop"
    /\ FillIdle
    /\ ScaleIdle
    /\ MainIdle
    /\ \E w \in 0 .. MaxCropW, h \in 0 .. MaxCropH :
         \E O \in {{}} \cup {{f[k] : k \in 1 .. MaxOpaque} :
                                 f \in [1 .. MaxOpaque -> Pixels(w, h)]} :
            /\ Cardinality(O) <= MaxOpaque
            /\ img = [w  |-> w,
                      h  |-> h,
                      px |-> [p \in Pixels(w, h) |->
                                [c |-> 1 + p[1] + w * p[2],
                                 a |-> IF p \in O THEN 255 ELSE 0]]]
    /\ cropped = NoImage
    /\ again = NoImage

\* cropped = crop_alpha(img, 2)
Crop ==
    /\ pc = "crop"
    /\ cropped' = crop_alpha(img, PAD)
    /\ pc' = "cropped"
    /\ UNCHANGED <<fillVars, img, again, scaleVars, mainVars>>

\* crop_alpha applied to the image it returned
CropAgain ==
    /\ pc = "cropped"
    /\ again' = crop_alpha(cropped, PAD)
    /\ pc' = "recropped"
    /\ UNCHANGED <<fillVars, img, cropped, scaleVars, mainVars>>

CropNext == Crop \/ CropAgain

SpecCrop == CropInit /\ [][CropNext]_vars

----------------------------------------------------------------------------
(* The scaling step of prep_sprite:                                        *)
(*     tw = max(1, int(cropped.width * (TARGET_H / cropped.height)))       *)
(* `/` is Python's true division: both operands become IEEE-754 doubles    *)
(* and the quotient is rounded to nearest, ties to even; the product with  *)
(* the width is rounded the same way; int() truncates.  A positive double  *)
(* is modelled as [e, l]: the binary exponent e of its leading 1 and the   *)
(* 52 mantissa bits after it as four 13-bit limbs l[1] .. l[4], that is    *)
(*     2^e * (1 + l[1]/2^13 + l[2]/2^26 + l[3]/2^39 + l[4]/2^52).          *)

\* cropped sprites of at most this width and height
MaxW == 13

MaxH == 13

TARGET_H == 30

\* 2^13: one limb of the mantissa
LIMB == 8192

RECURSIVE Pow2(_)
Pow2(n) == IF n = 0 THEN 1 ELSE 2 * Pow2(n - 1)

\* the exponent e with 2^e <= n / d < 2^(e + 1), for n, d >= 1
RECURSIVE ExpUp(_, _, _)
ExpUp(n, d, e) == IF n >= 2 * d * Pow2(e) THEN ExpUp(n, d, e + 1) ELSE e

RECURSIVE ExpDown(_, _, _)
ExpDown(n, d, e) == IF n * Pow2(e) < d THEN ExpDown(n, d, e + 1) ELSE 0 - e

Exponent(n, d) == IF n >= d THEN ExpUp(n, d, 0) ELSE ExpDown(n, d, 1)

\* the next 13 bits of the binary expansion of r / d (r < d), and what is left
DivStep(r, d) == [l |-> (r * LIMB) \div d, r |-> (r * LIMB) % d]

\* the next double up: the mantissa plus one unit in its last place
NextUp(x) ==
    LET a4 == x.l[4] + 1
        a3 == x.l[3] + (a4 \div LIMB)
        a2 == x.l[2] + (a3 \div LIMB)
        a1 == x.l[1] + (a2 \div LIMB)
    IN  IF a1 \div LIMB = 1
        THEN [e |-> x.e + 1, l |-> <<0, 0, 0, 0>>]
        ELSE [e |-> x.e, l |-> <<a1 % LIMB, a2 % LIMB, a3 % LIMB, a4 % LIMB>>]

\* round to nearest, ties to even: x holds the kept bits, `half` is the first
\* bit dropped and `sticky` tells whether anything non-zero follows it
RoundNearestEven(x, half, sticky) ==
    IF half = 1 /\ (sticky \/ x.l[4] % 2 = 1) THEN NextUp(x) ELSE x

\* the double nearest to n / d, for integers n, d >= 1
FloatDiv(n, d) ==
    LET e    == Exponent(n, d)
        num  == IF e >= 0 THEN n ELSE n * Pow2(0 - e)
        den  == IF e >= 0 THEN d * Pow2(e) ELSE d
        s1   == DivStep(num - den, den)
        s2   == DivStep(s1.r, den)
        s3   == DivStep(s2.r, den)
        s4   == DivStep(s3.r, den)
        half == IF 2 * s4.r >= den THEN 1 ELSE 0
    IN  RoundNearestEven([e |-> e, l |-> <<s1.l, s2.l, s3.l, s4.l>>],
                         half, 2 * s4.r - half * den # 0)

\* the number of binary digits of n >= 1
RECURSIVE BitLen(_)
BitLen(n) == IF n <= 1 THEN 1 ELSE 1 + BitLen(n \div 2)

\* the double nearest to n * x, for an integer 1 <= n < 4096 and a double x:
\* the exact product limb by limb, shifted right by the s digits it gained
FloatMul(n, x) ==
    LET v4   == x.l[4] * n
        v3   == x.l[3] * n + (v4 \div LIMB)
        v2   == x.l[2] * n + (v3 \div LIMB)
        v1   == x.l[1] * n + (v2 \div LIMB)
        top  == n + (v1 \div LIMB)
        s    == BitLen(top) - 1
        lo   == Pow2(s)
        up   == LIMB \div lo
        rem  == (v4 % LIMB) % lo
        half == IF s >= 1 /\ rem >= lo \div 2 THEN 1 ELSE 0
    IN  RoundNearestEven(
            [e |-> x.e + s,
             l |-> << (top % lo) * up + ((v1 % LIMB) \div lo),
                      ((v1 % LIMB) % lo) * up + ((v2 % LIMB) \div lo),
                      ((v2 % LIMB) % lo) * up + ((v3 % LIMB) \div lo),
                      ((v3 % LIMB) % lo) * up + ((v4 % LIMB) \div lo) >>],
            half, s >= 1 /\ rem % (lo \div 2) # 0)

\* int(x) for a double 0 <= x < 2^27: the digits before the binary point
Trunc(x) ==
    IF x.e < 0
    THEN 0
    ELSE IF x.e <= 13
    THEN Pow2(x.e) + (x.l[1] \div Pow2(13 - x.e))
    ELSE Pow2(x.e) + x.l[1] * Pow2(x.e - 13) + (x.l[2] \div Pow2(26 - x.e))

\* int(width * (TARGET_H / height)), for height >= 1
ScaledWidth(width, height) ==
    IF width = 0 THEN 0 ELSE Trunc(FloatMul(width, FloatDiv(TARGET_H, height)))

\* tw = max(1, int(...))
TargetWidth(width, height) ==
    LET scaled == ScaledWidth(width, height)
    IN  IF scaled > 1 THEN scaled ELSE 1

ScaleInit ==
    /\ pc = "scale"
    /\ FillIdle
    /\ MainIdle
    /\ img = NoImage
    /\ again = NoImage
    /\ \E w \in 0 .. MaxW, h \in 0 .. MaxH :
         cropped = [w |-> w, h |-> h, px |-> << >>]
    /\ resized = << >>
    /\ err = ""

\* lines 96-97, the height not zero
Resize ==
    /\ pc = "scale"
    /\ cropped.h # 0
    /\ resized' = <<TargetWidth(cropped.w, cropped.h), TARGET_H>>
    /\ pc' = "resized"
    /\ UNCHANGED <<fillVars, cropVars, err, mainVars>>

\* line 96 with cropped.height = 0: TARGET_H / 0 raises, nothing is resized
ResizeRaises ==
    /\ pc = "scale"
    /\ cropped.h = 0
    /\ err' = "ZeroDivisionError"
    /\ pc' = "raised"
    /\ UNCHANGED <<fillVars, cropVars, resized, mainVars>>

ScaleNext == Resize \/ ResizeRaises

SpecScale == ScaleInit /\ [][ScaleNext]_vars

----------------------------------------------------------------------------
(* compose_walk_frames *)

\* sprites of at most this width and height: past the canvas in both
MaxSpriteW == 35

MaxSpriteH == 34

CANVAS == <<32, 32>>

OFFSETS == << <<0, 0>>, <<1, -1>>, <<0, 0>>, <<-1, -1>> >>

SOURCES == <<"cz", "heyi">>

\* a base_x that rounds the halved difference towards zero
base_x_truncating(sw) ==
    IF CANVAS[1] - sw >= 0
    THEN (CANVAS[1] - sw) \div 2
    ELSE 0 - ((sw - CANVAS[1]) \div 2)

\* (CANVAS[0] - sw) // 2: Python's floor division, as \div is
base_x(sw) == (CANVAS[1] - sw) \div 2

base_y(sh) == CANVAS[2] - sh

\* Image.alpha_composite(im, dest) on an image of `size`: the overlay is
\* blended over the box at dest and pasted back; the part of the box outside
\* the image is dropped, the image keeps its size.  The result is the region
\* of the image that was painted, << >> when the box misses the image.
alpha_composite(size, over, dest) ==
    LET l == IF dest[1] > 0 THEN dest[1] ELSE 0
        t == IF dest[2] > 0 THEN dest[2] ELSE 0
        r == IF dest[1] + over[1] < size[1] THEN dest[1] + over[1] ELSE size[1]
        b == IF dest[2] + over[2] < size[2] THEN dest[2] + over[2] ELSE size[2]
    IN  IF l < r /\ t < b THEN <<l, t, r, b>> ELSE << >>

\* the frame of index k (from 0): a transparent canvas, the shadow ellipse,
\* the sprite composited at the base position plus the frame's offset
Frame(k) ==
    LET dx   == OFFSETS[k + 1][1]
        dy   == OFFSETS[k + 1][2]
        dest == <<base_x(sprite.w) + dx, base_y(sprite.h) + dy>>
    IN  [size    |-> CANVAS,
         shadow  |-> <<10 + dx, 27, 22 + dx, 31>>,
         dest    |-> dest,
         painted |-> alpha_composite(CANVAS, <<sprite.w, sprite.h>>, dest)]

ComposeInit ==
    /\ pc = "compose"
    /\ FillIdle
    /\ CropIdle
    /\ ScaleIdle
    /\ present = {}
    /\ idx = 0
    /\ name \in {SOURCES[k] : k \in 1 .. Len(SOURCES)}
    /\ \E sw \in 1 .. MaxSpriteW, sh \in 1 .. MaxSpriteH :
         sprite = [w |-> sw, h |-> sh]
    /\ i = 0
    /\ files = << >>
    /\ log = << >>

\* lines 106-119: one iteration of the loop over OFFSETS, the save succeeding
ComposeFrame ==
    /\ pc = "compose"
    /\ i < Len(OFFSETS)
    /\ files' = (<<name, i>> :> Frame(i)) @@ files
    /\ log' = Append(log, <<"wrote", name, i>>)
    /\ i' = i + 1
    /\ UNCHANGED <<pc, fillVars, cropVars, scaleVars, present, idx, name, sprite>>

ComposeNext == ComposeFrame

SpecCompose == ComposeInit /\ [][ComposeNext]_vars

----------------------------------------------------------------------------
(* main *)

\* source images whose cropped sprite is at most this wide and high
MaxSrc == 4

MainInit ==
    /\ pc = "loop"
    /\ FillIdle
    /\ CropIdle
    /\ ScaleIdle
    /\ present \in SUBSET {SOURCES[k] : k \in 1 .. Len(SOURCES)}
    /\ idx = 1
    /\ name = ""
    /\ sprite = [w |-> 0, h |-> 0]
    /\ i = 0
    /\ files = << >>
    /\ log = << >>

\* a main whose loop has no `if not path.exists()`: Image.open raises
SkipMissingRaises ==
    /\ pc = "loop"
    /\ idx <= Len(SOURCES)
    /\ SOURCES[idx] \notin present
    /\ err' = "FileNotFoundError"
    /\ pc' = "raised"
    /\ UNCHANGED <<fillVars, cropVars, resized, mainVars>>

\* lines 125-127: the source is missing; print and continue
SkipMissing ==
    /\ pc = "loop"
    /\ idx <= Len(SOURCES)
    /\ SOURCES[idx] \notin present
    /\ log' = Append(log, <<"missing source", SOURCES[idx]>>)
    /\ idx' = idx + 1
    /\ UNCHANGED <<pc, fillVars, cropVars, scaleVars, present, name, sprite, i, files>>

\* line 128 and the call of line 129: prep_sprite returns the sprite resized
\* from a cropped image of some width and height
PrepSprite ==
    /\ pc = "loop"
    /\ idx <= Len(SOURCES)
    /\ SOURCES[idx] \in present
    /\ \E cw \in 1 .. MaxSrc, ch \in 1 .. MaxSrc :
         sprite' = [w |-> TargetWidth(cw, ch), h |-> TARGET_H]
    /\ name' = SOURCES[idx]
    /\ i' = 0
    /\ pc' = "compose"
    /\ UNCHANGED <<fillVars, cropVars, scaleVars, present, idx, files, log>>

\* line 128: Image.open raises (the file is no image, or cannot be read);
\* nothing in main catches it
PrepRaises ==
    /\ pc = "loop"
    /\ idx <= Len(SOURCES)
    /\ SOURCES[idx] \in present
    /\ err' = "UnidentifiedImageError"
    /\ pc' = "raised"
    /\ UNCHANGED <<fillVars, cropVars, resized, mainVars>>

\* line 118: frame.save raises (the disk is full, the file cannot be
\* written); nothing in compose_walk_frames or main catches it
SaveRaises ==
    /\ pc = "compose"
    /\ i < Len(OFFSETS)
    /\ err' = "OSError"
    /\ pc' = "raised"
    /\ UNCHANGED <<fillVars, cropVars, resized, mainVars>>

\* compose_walk_frames returns; the loop of main goes to the next entry
ComposeReturn ==
    /\ pc = "compose"
    /\ i = Len(OFFSETS)
    /\ idx' = idx + 1
    /\ pc' = "loop"
    /\ UNCHANGED <<fillVars, cropVars, scaleVars, present, name, sprite, i, files, log>>

\* the loop over SOURCES has ended; main returns
MainReturn ==
    /\ pc = "loop"
    /\ idx > Len(SOURCES)
    /\ pc' = "done"
    /\ UNCHANGED <<fillVars, cropVars, scaleVars, mainVars>>

MainNext ==
    \/ SkipMissing
    \/ PrepSprite
    \/ PrepRaises
    \/ ComposeFrame
    \/ SaveRaises
    \/ ComposeReturn
    \/ MainReturn

SpecMain == MainInit /\ [][MainNext]_vars

----------------------------------------------------------------------------
(* The border-reachable near-white set, defined without the queue. *)

IsBg(p) == is_bg_pixel(rgb.px[p][1], rgb.px[p][2], rgb.px[p][3])

OnBorder(p) ==
    p[1] = 0 \/ p[1] = rgb.w - 1 \/ p[2] = 0 \/ p[2] = rgb.h - 1

Adjacent(p, n) ==
    \/ p[2] = n[2] /\ (p[1] = n[1] + 1 \/ p[1] = n[1] - 1)
    \/ p[1] = n[1] /\ (p[2] = n[2] + 1 \/ p[2] = n[2] - 1)

AllPixels == Pixels(rgb.w, rgb.h)

BorderSeeds == {p \in AllPixels : OnBorder(p) /\ IsBg(p)}

RECURSIVE Grow(_)
Grow(S) ==
    LET N == S \cup {p \in AllPixels : IsBg(p) /\ \E n \in S : Adjacent(p, n)}
    IN  IF N = S THEN S ELSE Grow(N)

Reach == Grow(BorderSeeds)

\* C1: in every state of the fill a marked pixel satisfies is_bg_pixel and is
\* joined to a border pixel by a 4-connected chain of is_bg_pixel pixels; a
\* near-white pixel outside that set is never marked and ends with alpha 255.
C1_MarkedOnlyIfBorderConnected ==
    LET R == Reach
    IN  /\ \A p \in AllPixels : bg[p] => IsBg(p) /\ p \in R
        /\ \A k \in 1 .. Len(q) : q[k] \in AllPixels /\ bg[q[k]]
        /\ pc = "done" =>
             \A p \in AllPixels : p \notin R => ~bg[p] /\ rgba[p] = 255

\* an enclosed near-white pixel kept opaque although the fill removed others
C1_Witness ==
    /\ pc = "done"
    /\ \E p \in AllPixels : IsBg(p) /\ p \notin Reach /\ rgba[p] = 255
    /\ \E p \in AllPixels : bg[p] /\ rgba[p] = 0

\* C2: when the queue has run empty the mask is exactly the border-reachable
\* near-white set, those pixels get alpha 0 and all others 255; with no
\* near-white border pixel the mask is all-false.
C2_FinalMaskIsReachableSet ==
    LET R == Reach
    IN  /\ (pc = "fill" /\ q = << >>) \/ pc = "done" =>
             /\ \A p \in AllPixels : bg[p] <=> p \in R
             /\ BorderSeeds = {} => \A p \in AllPixels : ~bg[p]
        /\ pc = "done" =>
             \A p \in AllPixels : rgba[p] = IF p \in R THEN 0 ELSE 255

\* an interior pixel, reached only through the expansion, made transparent
C2_Witness ==
    /\ pc = "done"
    /\ \E p \in AllPixels : ~OnBorder(p) /\ bg[p] /\ rgba[p] = 0
    /\ \E p \in AllPixels : ~bg[p]

\* C10: no pixel is appended to the queue twice: a pixel is appended exactly
\* when it is first marked, so a marked pixel is never appended again; the
\* loop therefore runs at most once per pixel (seeding, the loop with the queue
\* non-empty or empty: every unfinished position has its step), and the fill
\* ends with the queue empty.
C10_NoRequeueAndTerminates ==
    /\ \A p \in AllPixels : enq[p] <= 1 /\ (bg[p] <=> enq[p] = 1)
    /\ \A j, k \in 1 .. Len(q) : q[j] = q[k] => j = k
    /\ iters + Len(q) = Cardinality({p \in AllPixels : enq[p] >= 1})
    /\ iters <= rgb.w * rgb.h
    /\ pc \in {"seed", "fill", "done"}
    /\ pc = "done" => q = << >>

\* a one-pixel-wide image whose corners were offered by both seeding loops
C10_Witness ==
    /\ pc = "done"
    /\ rgb.w = 1
    /\ rgb.h >= 2
    /\ \A p \in AllPixels : enq[p] = 1

\* the offset at which crop_alpha cut its result out of the input
CropOffsets ==
    {o \in (0 .. img.w) \X (0 .. img.h) :
        \A p \in Pixels(cropped.w, cropped.h) :
            /\ <<p[1] + o[1], p[2] + o[2]>> \in Pixels(img.w, img.h)
            /\ cropped.px[p] = img.px[<<p[1] + o[1], p[2] + o[2]>>]}

\* C9: crop_alpha is idempotent (cropping its result again returns the same
\* dimensions and pixels); its result is never larger than its input and
\* holds the input's pixels unchanged, with every non-transparent pixel kept;
\* with no pixel of non-zero alpha the input is returned as it is.
C9_CropIdempotent ==
    /\ pc = "recropped" => again = cropped
    /\ pc \in {"cropped", "recropped"} =>
         /\ cropped.w <= img.w /\ cropped.h <= img.h
         /\ CropOffsets # {}
         /\ Cardinality({p \in Pixels(cropped.w, cropped.h) : cropped.px[p].a # 0})
              = Cardinality({p \in Pixels(img.w, img.h) : img.px[p].a # 0})
         /\ getbbox(img) = << >> => cropped = img

\* a crop that shrank the image, clamped at the left edge and not at the right
C9_Witness ==
    /\ pc = "recropped"
    /\ again = cropped
    /\ cropped.w < img.w
    /\ getbbox(img) # << >>
    /\ getbbox(img)[1] < PAD
    /\ getbbox(img)[3] + PAD < img.w

----------------------------------------------------------------------------
(* The scaling step. *)

\* C4: a cropped sprite of width W >= 1 and height H >= 1 is resized to
\* height exactly TARGET_H and to width exactly max(1, round(W * TARGET_H / H)),
\* the integer nearest to the exact quotient (either way at a tie).
C4_WidthRoundedToNearest ==
    pc = "resized" /\ cropped.w >= 1 =>
        LET exact == cropped.w * TARGET_H
            tw    == resized[1]
            off   == IF tw * cropped.h >= exact
                     THEN tw * cropped.h - exact
                     ELSE exact - tw * cropped.h
        IN  /\ resized[2] = TARGET_H
            /\ tw >= 1
            /\ 2 * off <= cropped.h \/ (tw = 1 /\ 2 * exact <= cropped.h)

\* C5: a cropped image of height 0 makes the scaling step fail with a
\* DegenerateImage error.
C5_ZeroHeightIsDegenerateImage ==
    pc \in {"resized", "raised"} /\ cropped.h = 0 =>
        pc = "raised" /\ err = "DegenerateImage"

----------------------------------------------------------------------------
(* The frame compositor. *)

InBox(box, x, y) ==
    box # << >> /\ box[1] <= x /\ x < box[3] /\ box[2] <= y /\ y < box[4]

\* C6: whatever the sprite's size, compose_walk_frames writes one frame per
\* entry of OFFSETS, indices 0 .. 3, each of the canvas size 32 x 32, with the
\* sprite at (base_x + dx, base_y + dy), base_x the floor of (32 - sw) / 2 and
\* base_y = 32 - sh: a canvas pixel shows the sprite exactly where the sprite,
\* put there, covers it.
C6_FramesCanvasSized ==
    pc = "compose" /\ idx = 0 =>
        /\ i <= 4
        /\ DOMAIN files = {name} \X (0 .. (i - 1))
        /\ i = Len(OFFSETS) => DOMAIN files = {name} \X {0, 1, 2, 3}
        /\ \A k \in 0 .. (i - 1) :
             LET f  == files[<<name, k>>]
                 bx == f.dest[1] - OFFSETS[k + 1][1]
                 by == f.dest[2] - OFFSETS[k + 1][2]
             IN  /\ f.size = <<32, 32>>
                 /\ 2 * bx <= 32 - sprite.w /\ 32 - sprite.w <= 2 * bx + 1
                 /\ by = 32 - sprite.h
                 /\ k = i - 1 =>
                      \A x \in 0 .. 31, y \in 0 .. 31 :
                         InBox(f.painted, x, y) <=>
                            /\ 0 <= x - f.dest[1] /\ x - f.dest[1] < sprite.w
                            /\ 0 <= y - f.dest[2] /\ y - f.dest[2] < sprite.h

\* all four frames of a sprite wider and taller than the canvas, the last one
\* put at a negative position in both directions
C6_Witness ==
    /\ pc = "compose" /\ idx = 0
    /\ i = 4
    /\ sprite.w > 32 /\ sprite.h > 32
    /\ files[<<name, 3>>].dest[1] < 0 /\ files[<<name, 3>>].dest[2] < 0
    /\ files[<<name, 3>>].size = CANVAS

----------------------------------------------------------------------------
(* The driver. *)

Stopped == pc \in {"done", "raised"}

\* main has reached the entry at position k of SOURCES
Processed(k) == idx > k \/ (idx = k /\ pc \in {"compose", "raised"})

Written(n) == {k \in 0 .. 3 : <<n, k>> \in DOMAIN files}

Printed == {log[k] : k \in 1 .. Len(log)}

\* C3: for an entry of SOURCES whose source file is missing no output file is
\* written, a diagnostic is printed, the entry does not stop the batch, and
\* every later entry is still processed.
C3_MissingSourceSkipped ==
    pc \in {"loop", "compose", "done", "raised"} /\ idx >= 1 =>
        \A k \in 1 .. Len(SOURCES) :
            SOURCES[k] \notin present =>
                /\ Written(SOURCES[k]) = {}
                /\ idx > k => <<"missing source", SOURCES[k]>> \in Printed
                /\ ~(idx = k /\ pc \in {"compose", "raised"})
                /\ Stopped => \A j \in (k + 1) .. Len(SOURCES) : Processed(j)

\* the first source missing, the second processed to its last frame
C3_Witness ==
    /\ pc = "done"
    /\ SOURCES[1] \notin present
    /\ <<"missing source", SOURCES[1]>> \in Printed
    /\ Written(SOURCES[1]) = {}
    /\ Written(SOURCES[2]) = {0, 1, 2, 3}

\* C7: a failure while processing one character does not abort the batch:
\* when main has stopped every entry of SOURCES has been processed, and after
\* a failure a summary of the failed characters has been printed.
C7_FailureIsolated ==
    pc \in {"done", "raised"} /\ idx >= 1 =>
        /\ \A k \in 1 .. Len(SOURCES) : Processed(k)
        /\ err # "" => \E line \in Printed : line[1] = "summary"

\* C8: when main has finished or stopped, every character has all four of
\* its files or none, and the character whose processing failed has none.
C8_AllOrNothing ==
    pc \in {"done", "raised"} /\ idx >= 1 =>
        /\ \A k \in 1 .. Len(SOURCES) : Written(SOURCES[k]) \in {{}, {0, 1, 2, 3}}
        /\ pc = "raised" => Written(SOURCES[idx]) = {}

====
